---- MODULE Spec2Model ----
(***************************************************************************)
(* Model of the process supervisor of fm-skin-builder's desktop shell       *)
(* (frontend/src-tauri/src/main.rs): run_python_task spawns the worker,     *)
(* drains its stdout and stderr in two concurrent tokio tasks, waits for    *)
(* the exit status, joins the two tasks and emits build_complete.           *)
(*                                                                         *)
(* Text is modelled as a sequence of characters, one one-character string   *)
(* per Unicode scalar value (a non-ASCII character is named "U+XXXX").      *)
(* Rust's byte offsets into a &str are translated to character positions:   *)
(* every offset the code computes lies on a character boundary.             *)
(***************************************************************************)
EXTENDS Integers, Sequences, FiniteSets, TLC

----------------------------------------------------------------------------
(* Bounds of the model *)

MaxOutLines == 2    \* lines the worker writes to stdout in one run
MaxErrLines == 1    \* lines the worker writes to stderr in one run
PipeCap == 1        \* lines an OS pipe holds before a write blocks
MaxTokens == 3      \* tokens of a generated line of text

----------------------------------------------------------------------------
(* Option and Result values *)

None == [tag |-> "None"]
Some(v) == [tag |-> "Some", val |-> v]
Ok(v) == [tag |-> "Ok", val |-> v]
Err(e) == [tag |-> "Err", err |-> e]

----------------------------------------------------------------------------
(* str primitives used by the source *)

\* char::is_whitespace (the Unicode White_Space property)
WhiteSpace ==
    {" ", "\t", "\n", "\r", "U+000B", "U+000C", "U+0085", "U+00A0", "U+1680",
     "U+2000", "U+2001", "U+2002", "U+2003", "U+2004", "U+2005", "U+2006",
     "U+2007", "U+2008", "U+2009", "U+200A", "U+2028", "U+2029", "U+202F",
     "U+205F", "U+3000"}

LowerCase ==
    <<"a", "b", "c", "d", "e", "f", "g", "h", "i", "j", "k", "l", "m",
      "n", "o", "p", "q", "r", "s", "t", "u", "v", "w", "x", "y", "z">>

UpperCase ==
    <<"A", "B", "C", "D", "E", "F", "G", "H", "I", "J", "K", "L", "M",
      "N", "O", "P", "Q", "R", "S", "T", "U", "V", "W", "X", "Y", "Z">>

\* char::to_uppercase on the characters of the model's alphabet
UpperChar(c) ==
    IF \E i \in 1..26 : LowerCase[i] = c
    THEN UpperCase[CHOOSE i \in 1..26 : LowerCase[i] = c]
    ELSE c

\* str::to_uppercase
to_uppercase(s) == [i \in 1..Len(s) |-> UpperChar(s[i])]

\* sub occurs in s at character position i (1-based)
OccursAt(s, sub, i) ==
    /\ i >= 1
    /\ i + Len(sub) - 1 <= Len(s)
    /\ SubSeq(s, i, i + Len(sub) - 1) = sub

\* str::contains
contains(s, sub) == \E i \in 1..(Len(s) + 1) : OccursAt(s, sub, i)

\* str::find: the 0-based offset of the first occurrence
find(s, sub) ==
    IF contains(s, sub)
    THEN Some((CHOOSE i \in 1..(Len(s) + 1) :
                  /\ OccursAt(s, sub, i)
                  /\ \A j \in 1..(i - 1) : ~OccursAt(s, sub, j)) - 1)
    ELSE None

\* str::trim
trim(s) ==
    LET keep == {i \in 1..Len(s) : s[i] \notin WhiteSpace}
    IN  IF keep = {} THEN <<>>
        ELSE LET lo == CHOOSE i \in keep : \A j \in keep : i <= j
                 hi == CHOOSE i \in keep : \A j \in keep : j <= i
             IN  SubSeq(s, lo, hi)

\* str::split_whitespace().collect(): the maximal runs of non-whitespace
RECURSIVE SplitFrom(_, _, _, _)
SplitFrom(s, i, cur, acc) ==
    IF i > Len(s)
    THEN IF cur = <<>> THEN acc ELSE Append(acc, cur)
    ELSE IF s[i] \in WhiteSpace
         THEN SplitFrom(s, i + 1, <<>>,
                        IF cur = <<>> THEN acc ELSE Append(acc, cur))
         ELSE SplitFrom(s, i + 1, Append(cur, s[i]), acc)

split_whitespace(s) == SplitFrom(s, 1, <<>>, <<>>)

\* str::split(sep).next(): the text before the first occurrence of sep
split_next(s, sep) ==
    LET at == find(s, sep)
    IN  IF at.tag = "Some" THEN SubSeq(s, 1, at.val) ELSE s

Digits == <<"0", "1", "2", "3", "4", "5", "6", "7", "8", "9">>

IsDigit(c) == \E d \in 1..10 : Digits[d] = c

DigitVal(c) == (CHOOSE d \in 1..10 : Digits[d] = c) - 1

RECURSIVE DecVal(_)
DecVal(ds) ==
    IF ds = <<>> THEN 0
    ELSE 10 * DecVal(SubSeq(ds, 1, Len(ds) - 1)) + DigitVal(ds[Len(ds)])

RECURSIVE StripZeros(_)
StripZeros(ds) ==
    IF ds # <<>> /\ ds[1] = "0" THEN StripZeros(Tail(ds)) ELSE ds

\* u32::MAX, as digits
U32MaxDigits == <<"4", "2", "9", "4", "9", "6", "7", "2", "9", "5">>

\* a > b for two digit strings of equal length
RECURSIVE DigitsGreater(_, _)
DigitsGreater(a, b) ==
    IF a = <<>> THEN FALSE
    ELSE IF DigitVal(a[1]) # DigitVal(b[1])
         THEN DigitVal(a[1]) > DigitVal(b[1])
         ELSE DigitsGreater(Tail(a), Tail(b))

\* str::parse::<u32>(): an optional "+", then one or more ASCII digits, the
\* value at most u32::MAX.
parse_u32(w) ==
    LET body == IF w # <<>> /\ w[1] = "+" THEN Tail(w) ELSE w
        sig == StripZeros(body)
    IN  IF body = <<>> \/ \E i \in 1..Len(body) : ~IsDigit(body[i])
        THEN Err("InvalidDigit")
        ELSE IF \/ Len(sig) > 10
                \/ Len(sig) = 10 /\ DigitsGreater(sig, U32MaxDigits)
             THEN Err("PosOverflow")
             ELSE Ok(DecVal(sig))

\* Display for an integer (format!("{}", n))
RECURSIVE NatToStr(_)
NatToStr(n) ==
    IF n < 10 THEN <<Digits[n + 1]>>
    ELSE Append(NatToStr(n \div 10), Digits[(n % 10) + 1])

IntToStr(n) == IF n < 0 THEN <<"-">> \o NatToStr(0 - n) ELSE NatToStr(n)

\* [String]::join(sep)
RECURSIVE join(_, _)
join(lines, sep) ==
    IF lines = <<>> THEN <<>>
    ELSE IF Len(lines) = 1 THEN lines[1]
         ELSE lines[1] \o sep \o join(Tail(lines), sep)

----------------------------------------------------------------------------
(* String literals of the source *)

PatchingBundleMarker ==
    <<"=", "=", "=", " ", "P", "a", "t", "c", "h", "i", "n", "g", " ",
      "b", "u", "n", "d", "l", "e", ":">>
BundleColon == <<"b", "u", "n", "d", "l", "e", ":">>
TripleEq == <<"=", "=", "=">>
SpOfSp == <<" ", "o", "f", " ">>
Slash == <<"/">>
OfWord == <<"o", "f">>
ProcessingPrefix ==
    <<"P", "r", "o", "c", "e", "s", "s", "i", "n", "g", ":", " ">>
ErrorWord == <<"E", "R", "R", "O", "R">>
CrossGlyph == <<"U+2717">>
StderrTag == <<"[", "S", "T", "D", "E", "R", "R", "]">>
WarnWord == <<"W", "A", "R", "N">>
WarningWord == <<"W", "A", "R", "N", "I", "N", "G">>
StderrPrefix == <<"[", "S", "T", "D", "E", "R", "R", "]", " ">>
NewLine == <<"\n">>
BuildCompletedMsg ==
    <<"B", "u", "i", "l", "d", " ", "c", "o", "m", "p", "l", "e", "t", "e",
      "d", " ", "s", "u", "c", "c", "e", "s", "s", "f", "u", "l", "l", "y">>
BuildFailedPrefix ==
    <<"B", "u", "i", "l", "d", " ", "f", "a", "i", "l", "e", "d", " ", "w",
      "i", "t", "h", " ", "e", "x", "i", "t", " ", "c", "o", "d", "e", " ">>
PatchArg == <<"p", "a", "t", "c", "h">>
BundleFlag == <<"-", "-", "b", "u", "n", "d", "l", "e">>
DebugExportFlag ==
    <<"-", "-", "d", "e", "b", "u", "g", "-", "e", "x", "p", "o", "r", "t">>
DryRunFlag == <<"-", "-", "d", "r", "y", "-", "r", "u", "n">>

----------------------------------------------------------------------------
(* Pure functions of main.rs *)

\* build_cli_args: Err when the trimmed skin path is empty
\* as build_cli_args, but the skin path is not trimmed before the test
build_cli_args_NoTrim(config) ==
    LET skin == config.skin_path
        bundles == trim(config.bundles_path)
    IN  IF skin = <<>>
        THEN Err("Skin folder is required.")
        ELSE Ok(<<PatchArg, skin>>
                \o (IF bundles # <<>> THEN <<BundleFlag, bundles>> ELSE <<>>)
                \o (IF config.debug_export THEN <<DebugExportFlag>> ELSE <<>>)
                \o (IF config.dry_run THEN <<DryRunFlag>> ELSE <<>>))

build_cli_args(config) ==
    LET skin == trim(config.skin_path)
        bundles == trim(config.bundles_path)
    IN  IF skin = <<>>
        THEN Err("Skin folder is required.")
        ELSE Ok(<<PatchArg, skin>>
                \o (IF bundles # <<>> THEN <<BundleFlag, bundles>> ELSE <<>>)
                \o (IF config.debug_export THEN <<DebugExportFlag>> ELSE <<>>)
                \o (IF config.dry_run THEN <<DryRunFlag>> ELSE <<>>))

\* Pattern 1 of parse_progress: the bundle-start marker
BundleStart(line) ==
    IF contains(line, PatchingBundleMarker)
    THEN LET start == find(line, BundleColon)
         IN  IF start.tag = "Some"
             THEN LET bundle_part ==
                          trim(SubSeq(line, start.val + 7 + 1, Len(line)))
                      end == find(bundle_part, TripleEq)
                  IN  IF end.tag = "Some"
                      THEN Some(<<0, 0,
                                  ProcessingPrefix
                                    \o trim(SubSeq(bundle_part, 1, end.val))>>)
                      ELSE None
             ELSE None
    ELSE None

\* the loop of pattern 2: the first i in 0..len-2 with words[i+1] = "of" and
\* both neighbours parsing as u32
RECURSIVE ScanTriples(_, _, _)
ScanTriples(line, words, i) ==
    IF i + 2 > Len(words)
    THEN None
    ELSE IF /\ words[i + 1] = OfWord
            /\ parse_u32(words[i]).tag = "Ok"
            /\ parse_u32(words[i + 2]).tag = "Ok"
         THEN Some(<<parse_u32(words[i]).val, parse_u32(words[i + 2]).val,
                     trim(split_next(line, TripleEq))>>)
         ELSE ScanTriples(line, words, i + 1)

\* Pattern 2 of parse_progress: "X of Y"
XOfY(line) ==
    IF contains(line, SpOfSp) \/ contains(line, Slash)
    THEN ScanTriples(line, split_whitespace(line), 1)
    ELSE None

\* as parse_progress, but pattern 2 is tried before pattern 1
parse_progress_XOfYFirst(line) ==
    IF XOfY(line).tag = "Some" THEN XOfY(line) ELSE BundleStart(line)

parse_progress(line) ==
    IF BundleStart(line).tag = "Some" THEN BundleStart(line) ELSE XOfY(line)

\* as get_log_level, but the warning markers are looked for first
get_log_level_WarnFirst(line) ==
    LET line_upper == to_uppercase(line)
    IN  IF contains(line_upper, WarnWord) \/ contains(line_upper, WarningWord)
        THEN "warning"
        ELSE IF \/ contains(line_upper, ErrorWord)
                \/ contains(line_upper, CrossGlyph)
                \/ contains(line_upper, StderrTag)
             THEN "error"
             ELSE "info"

get_log_level(line) ==
    LET line_upper == to_uppercase(line)
    IN  IF \/ contains(line_upper, ErrorWord)
           \/ contains(line_upper, CrossGlyph)
           \/ contains(line_upper, StderrTag)
        THEN "error"
        ELSE IF contains(line_upper, WarnWord)
                  \/ contains(line_upper, WarningWord)
             THEN "warning"
             ELSE "info"

----------------------------------------------------------------------------
(* Inputs of the model *)

Streams == {"stdout", "stderr"}

\* lines the worker may print on stdout: "1 of 2" carries progress with
\* total > 0, "ok" carries none
OutLines == {<<"1", " ", "o", "f", " ", "2">>, <<"o", "k">>}

\* lines the worker may print on stderr; "3 of 4" has the shape of a
\* progress line
ErrLines == {<<"3", " ", "o", "f", " ", "4">>, <<"E">>}

LinesOf(s) == IF s = "stdout" THEN OutLines ELSE ErrLines

MaxLinesOf(s) == IF s = "stdout" THEN MaxOutLines ELSE MaxErrLines

\* exit codes the worker may exit with
ExitCodes == {0, 3}

\* TaskConfig values of a run request
Configs ==
    [skin_path : {<<>>, <<" ">>, <<" ", "s">>},
     bundles_path : {<<>>},
     debug_export : {FALSE},
     dry_run : {FALSE}]

\* The texts the line functions are exercised on: lines written out in full,
\* and every line of at most MaxTokens tokens separated by a space or a tab.
SampleLines ==
    {<<>>,
     <<"5", " ", "o", "f", " ", "1", "0", " ", "t", "h", "i", "n", "g", "s",
       " ", "=", "=", "=", " ", "f", "r", "o", "b", "n", "i", "c", "a", "t",
       "i", "n", "g">>,
     <<"n", "o", " ", "n", "u", "m", "b", "e", "r", "s", " ", "h", "e", "r",
       "e">>,
     <<"1", "2", " ", "a", " ", "7">>,
     <<"=", "=", "=", " ", "P", "a", "t", "c", "h", "i", "n", "g", " ", "b",
       "u", "n", "d", "l", "e", " ", "1", " ", "o", "f", " ", "3", ":", " ",
       "p", "/", "b", " ", "=", "=", "=">>,
     <<"=", "=", "=", " ", "P", "a", "t", "c", "h", "i", "n", "g", " ", "b",
       "u", "n", "d", "l", "e", ":", " ", "a", " ", "=", "=", "=">>,
     <<"=", "=", "=", " ", "P", "a", "t", "c", "h", "i", "n", "g", " ", "b",
       "u", "n", "d", "l", "e", ":", " ", "a", " ", "=", "=", "=", " ", "1",
       " ", "o", "f", " ", "2">>,
     <<"=", "=", "=", " ", "P", "a", "t", "c", "h", "i", "n", "g", " ", "b",
       "u", "n", "d", "l", "e", ":", " ", "a", " ", "1", " ", "o", "f", " ",
       "2">>,
     <<"b", "u", "n", "d", "l", "e", ":", " ", "1", " ", "o", "f", " ", "2",
       " ", "=", "=", "=", " ", "P", "a", "t", "c", "h", "i", "n", "g", " ",
       "b", "u", "n", "d", "l", "e", ":", " ", "x">>,
     <<"U+1F50D", " ", "S", "c", "a", "n", "n", "i", "n", "g", " ", "b", "u",
       "n", "d", "l", "e", ":", " ", "a", " ", "(", "3", "/", "5", ")">>,
     <<"a", "n", " ", "e", "r", "r", "o", "r", " ", "W", "A", "R", "N">>,
     <<"W", "a", "r", "n", "i", "n", "g", ":", " ", "x">>,
     <<"W", "A", "R", "N">>,
     <<"U+2717", " ", "f", "a", "i", "l", "e", "d">>,
     <<"[", "s", "t", "d", "e", "r", "r", "]", " ", "x">>,
     <<"0", " ", "o", "f", " ", "0">>,
     <<"5", " ", "o", "f", " ", "0">>,
     <<"5", "\t", "o", "f", "\t", "1", "0">>,
     <<"5", "\t", "o", "f", "\t", "1", "0", " ", "a", "/", "b">>,
     <<"a", "/", "b">>,
     <<"4", "2", "9", "4", "9", "6", "7", "2", "9", "6", " ", "o", "f", " ",
       "1", " ", "o", "f", " ", "2">>,
     <<" ", " ", "7", " ", "o", "f", " ", "9", " ", " ">>}

Tokens == {<<"5">>, <<"o", "f">>, <<"3", ":">>, <<"=", "=", "=">>}

Separators == {<<" ">>, <<"\t">>}

RECURSIVE TokenLines(_)
TokenLines(n) ==
    IF n = 1 THEN Tokens
    ELSE {l \o sep \o t : l \in TokenLines(n - 1), sep \in Separators,
                          t \in Tokens}

ParseLines == SampleLines \cup UNION {TokenLines(n) : n \in 1..MaxTokens}

\* the texts printed on stderr
ParseErrLines ==
    {<<>>, <<"E">>, <<"3", " ", "o", "f", " ", "4">>, <<"w", "a", "r", "n">>,
     <<"=", "=", "=", " ", "P", "a", "t", "c", "h", "i", "n", "g", " ", "b",
       "u", "n", "d", "l", "e", ":", " ", "a", " ", "=", "=", "=">>}

----------------------------------------------------------------------------
(* State *)

VARIABLES
    config,        \* the TaskConfig of the run request
    pc,            \* position of run_python_task
    cli_args,      \* Option: the arguments built by build_cli_args
    child,         \* the worker process: "none", "running", "exited"
    child_status,  \* Option<ExitStatus> of the worker once it has exited
    child_blocked, \* Option: the write the worker is blocked in
    written,       \* per stream: number of lines the worker has written
    pipe,          \* per stream: lines in the OS pipe, oldest first
    rd_closed,     \* per stream: the read end of the pipe has been dropped
    produced,      \* per stream: history of the lines that entered the pipe
    task_pc,       \* per stream: position of the drainer task
    task_lines,    \* per stream: the task's local `lines`
    task_line,     \* per stream: the line the task is processing
    read_err,      \* history: streams whose drainer ended on a read error
    exit_status,   \* Option: the ExitStatus returned by child.wait()
    stdout_lines,  \* run_python_task's stdout_lines
    stderr_lines,  \* run_python_task's stderr_lines
    events,        \* the events emitted on the AppHandle, in emission order
    result         \* Option: the Result run_python_task returned

vars ==
    <<config, pc, cli_args, child, child_status, child_blocked, written,
      pipe, rd_closed, produced, task_pc, task_lines, task_line, read_err,
      exit_status, stdout_lines, stderr_lines, events, result>>

childVars == <<child, child_status, child_blocked, written>>
pipeVars == <<pipe, rd_closed, produced>>
taskVars == <<task_pc, task_lines, task_line, read_err>>
supVars == <<config, pc, cli_args, exit_status, stdout_lines, stderr_lines,
             result>>

Init ==
    /\ config \in Configs
    /\ pc = "build_cli_args"
    /\ cli_args = None
    /\ child = "none"
    /\ child_status = None
    /\ child_blocked = None
    /\ written = [s \in Streams |-> 0]
    /\ pipe = [s \in Streams |-> <<>>]
    /\ rd_closed = [s \in Streams |-> FALSE]
    /\ produced = [s \in Streams |-> <<>>]
    /\ task_pc = [s \in Streams |-> "unstarted"]
    /\ task_lines = [s \in Streams |-> <<>>]
    /\ task_line = [s \in Streams |-> <<>>]
    /\ read_err = {}
    /\ exit_status = None
    /\ stdout_lines = <<>>
    /\ stderr_lines = <<>>
    /\ events = <<>>
    /\ result = None

----------------------------------------------------------------------------
(* Events *)

\* `src` is not part of the payload: it records the task that emitted.
LogEvent(src, message, level) ==
    [kind |-> "build_log", src |-> src, message |-> message, level |-> level]

ProgressEvent(src, current, total, status) ==
    [kind |-> "build_progress", src |-> src, current |-> current,
     total |-> total, status |-> status]

CompletionEvent(success, exit_code, message) ==
    [kind |-> "build_complete", src |-> "supervisor", success |-> success,
     exit_code |-> exit_code, message |-> message]

\* ExitStatus::code().unwrap_or(-1)
ExitCodeOf(status) == IF status.code.tag = "Some" THEN status.code.val ELSE -1

\* as SuccessOf, but any exit that carries a code counts as a success
SuccessOf_AnyCode(status) == status.code # None

\* ExitStatus::success()
SuccessOf(status) == status.code = Some(0)

----------------------------------------------------------------------------
(* run_python_task up to the spawn of the two drainer tasks *)

\* `?` on an Err: the function returns it
ReturnErr(msg) ==
    /\ result' = Some(Err(msg))
    /\ pc' = "returned"

\* the read ends still owned by run_python_task are dropped with it
DropHandles ==
    /\ rd_closed' = [s \in Streams |-> TRUE]
    /\ pipe' = [s \in Streams |-> <<>>]
    /\ UNCHANGED produced

BuildCliArgs ==
    /\ pc = "build_cli_args"
    /\ LET r == build_cli_args(config)
       IN  IF r.tag = "Err"
           THEN /\ ReturnErr(r.err)
                /\ UNCHANGED cli_args
           ELSE /\ cli_args' = Some(r.val)
                /\ pc' = "command"
                /\ UNCHANGED result
    /\ UNCHANGED <<config, exit_status, stdout_lines, stderr_lines, events>>
    /\ UNCHANGED <<childVars, pipeVars, taskVars>>

\* cfg!(debug_assertions) selects the interpreter of the workspace; a release
\* build resolves the bundled backend binary, which may fail or be missing.
BuildCommand ==
    /\ pc = "command"
    /\ \E debug_assertions \in BOOLEAN :
       \E outcome \in {"ok", "resolve_failed", "missing"} :
          /\ debug_assertions => outcome = "ok"
          /\ CASE outcome = "ok" -> pc' = "spawn" /\ UNCHANGED result
               [] outcome = "resolve_failed" ->
                      ReturnErr("Failed to resolve backend binary path")
               [] outcome = "missing" ->
                      ReturnErr("Backend binary not found")
    /\ UNCHANGED <<config, cli_args, exit_status, stdout_lines, stderr_lines,
                   events>>
    /\ UNCHANGED <<childVars, pipeVars, taskVars>>

\* as Spawn, but a failed spawn is also reported with a build_complete
Spawn_EmitsComplete ==
    /\ pc = "spawn"
    /\ \E spawned \in BOOLEAN :
          IF spawned
          THEN /\ child' = "running"
               /\ pc' = "take_stdout"
               /\ UNCHANGED <<result, events>>
          ELSE /\ ReturnErr("Failed to spawn process")
               /\ events' = Append(events,
                      CompletionEvent(FALSE, -1,
                                      BuildFailedPrefix \o IntToStr(-1)))
               /\ UNCHANGED child
    /\ UNCHANGED <<config, cli_args, exit_status, stdout_lines, stderr_lines>>
    /\ UNCHANGED <<child_status, child_blocked, written>>
    /\ UNCHANGED <<pipeVars, taskVars>>

Spawn ==
    /\ pc = "spawn"
    /\ \E spawned \in BOOLEAN :
          IF spawned
          THEN /\ child' = "running"
               /\ pc' = "take_stdout"
               /\ UNCHANGED result
          ELSE /\ ReturnErr("Failed to spawn process")
               /\ UNCHANGED child
    /\ UNCHANGED <<config, cli_args, exit_status, stdout_lines, stderr_lines,
                   events>>
    /\ UNCHANGED <<child_status, child_blocked, written>>
    /\ UNCHANGED <<pipeVars, taskVars>>

TakeStdout ==
    /\ pc = "take_stdout"
    /\ \E taken \in BOOLEAN :
          IF taken
          THEN /\ pc' = "take_stderr"
               /\ UNCHANGED <<result, pipeVars>>
          ELSE /\ ReturnErr("Failed to capture stdout")
               /\ DropHandles
    /\ UNCHANGED <<config, cli_args, exit_status, stdout_lines, stderr_lines,
                   events>>
    /\ UNCHANGED <<childVars, taskVars>>

TakeStderr ==
    /\ pc = "take_stderr"
    /\ \E taken \in BOOLEAN :
          IF taken
          THEN /\ pc' = "spawn_stdout_task"
               /\ UNCHANGED <<result, pipeVars>>
          ELSE /\ ReturnErr("Failed to capture stderr")
               /\ DropHandles
    /\ UNCHANGED <<config, cli_args, exit_status, stdout_lines, stderr_lines,
                   events>>
    /\ UNCHANGED <<childVars, taskVars>>

\* as SpawnStdoutTask, but the future is only created, not spawned: it does
\* not run while run_python_task waits for the exit
SpawnStdoutTask_NotSpawned ==
    /\ pc = "spawn_stdout_task"
    /\ pc' = "spawn_stderr_task"
    /\ UNCHANGED <<config, cli_args, exit_status, stdout_lines, stderr_lines,
                   result, events>>
    /\ UNCHANGED <<childVars, pipeVars, taskVars>>

\* tokio::spawn: the task is runnable from here on
SpawnStdoutTask ==
    /\ pc = "spawn_stdout_task"
    /\ task_pc' = [task_pc EXCEPT !["stdout"] = "read"]
    /\ pc' = "spawn_stderr_task"
    /\ UNCHANGED <<config, cli_args, exit_status, stdout_lines, stderr_lines,
                   result, events>>
    /\ UNCHANGED <<childVars, pipeVars, task_lines, task_line, read_err>>

SpawnStderrTask ==
    /\ pc = "spawn_stderr_task"
    /\ task_pc' = [task_pc EXCEPT !["stderr"] = "read"]
    /\ pc' = "wait"
    /\ UNCHANGED <<config, cli_args, exit_status, stdout_lines, stderr_lines,
                   result, events>>
    /\ UNCHANGED <<childVars, pipeVars, task_lines, task_line, read_err>>

----------------------------------------------------------------------------
(* The worker process and its two pipes *)

\* write(2) of one line on stream s: into the pipe if there is room, EPIPE
\* (the line is lost) if the read end is closed, blocking otherwise
ChildWrite(s, line) ==
    /\ child = "running"
    /\ child_blocked = None
    /\ written[s] < MaxLinesOf(s)
    /\ written' = [written EXCEPT ![s] = @ + 1]
    /\ IF rd_closed[s]
       THEN UNCHANGED <<pipe, produced, child_blocked>>
       ELSE IF Len(pipe[s]) < PipeCap
            THEN /\ pipe' = [pipe EXCEPT ![s] = Append(@, line)]
                 /\ produced' = [produced EXCEPT ![s] = Append(@, line)]
                 /\ UNCHANGED child_blocked
            ELSE /\ child_blocked' = Some([stream |-> s, line |-> line])
                 /\ UNCHANGED <<pipe, produced>>
    /\ UNCHANGED <<child, child_status, rd_closed>>
    /\ UNCHANGED <<supVars, taskVars, events>>

\* the blocked write returns: room was made, or the read end was closed
ChildUnblock ==
    /\ child = "running"
    /\ child_blocked # None
    /\ LET s == child_blocked.val.stream
           line == child_blocked.val.line
       IN  \/ /\ rd_closed[s]
              /\ UNCHANGED <<pipe, produced>>
           \/ /\ ~rd_closed[s]
              /\ Len(pipe[s]) < PipeCap
              /\ pipe' = [pipe EXCEPT ![s] = Append(@, line)]
              /\ produced' = [produced EXCEPT ![s] = Append(@, line)]
    /\ child_blocked' = None
    /\ UNCHANGED <<child, child_status, written, rd_closed>>
    /\ UNCHANGED <<supVars, taskVars, events>>

\* the worker exits with a code; its ends of both pipes are closed
ChildExit(code) ==
    /\ child = "running"
    /\ child_blocked = None
    /\ child' = "exited"
    /\ child_status' = Some([code |-> Some(code)])
    /\ UNCHANGED <<child_blocked, written>>
    /\ UNCHANGED <<supVars, pipeVars, taskVars, events>>

\* the worker is terminated by a signal: the status carries no code
ChildKilled ==
    /\ child = "running"
    /\ child' = "exited"
    /\ child_status' = Some([code |-> None])
    /\ child_blocked' = None
    /\ UNCHANGED written
    /\ UNCHANGED <<supVars, pipeVars, taskVars, events>>

----------------------------------------------------------------------------
(* The drainer tasks *)

\* the task is over: its reader, and with it the read end, is dropped
TaskEnds(s, how) ==
    /\ task_pc' = [task_pc EXCEPT ![s] = how]
    /\ rd_closed' = [rd_closed EXCEPT ![s] = TRUE]
    /\ pipe' = [pipe EXCEPT ![s] = <<>>]
    /\ UNCHANGED produced

\* as StdoutNextLine, but the progress of the line is not looked at
StdoutNextLine_NoProgress ==
    /\ task_pc["stdout"] = "read"
    /\ pipe["stdout"] # <<>>
    /\ LET line == Head(pipe["stdout"])
       IN  /\ pipe' = [pipe EXCEPT !["stdout"] = Tail(@)]
           /\ task_lines' = [task_lines EXCEPT !["stdout"] = Append(@, line)]
           /\ task_line' = [task_line EXCEPT !["stdout"] = line]
           /\ task_pc' = [task_pc EXCEPT !["stdout"] = "emit_log"]
    /\ UNCHANGED <<rd_closed, produced, read_err>>
    /\ UNCHANGED <<supVars, childVars, events>>

\* as StdoutNextLine, but the line is inserted at the front of `lines`
StdoutNextLine_Prepend ==
    /\ task_pc["stdout"] = "read"
    /\ pipe["stdout"] # <<>>
    /\ LET line == Head(pipe["stdout"])
           progress == parse_progress(line)
       IN  /\ pipe' = [pipe EXCEPT !["stdout"] = Tail(@)]
           /\ task_lines' = [task_lines EXCEPT !["stdout"] = <<line>> \o @]
           /\ task_line' = [task_line EXCEPT !["stdout"] = line]
           /\ task_pc' = [task_pc EXCEPT !["stdout"] =
                             IF progress.tag = "Some" /\ progress.val[2] > 0
                             THEN "emit_progress"
                             ELSE "emit_log"]
    /\ UNCHANGED <<rd_closed, produced, read_err>>
    /\ UNCHANGED <<supVars, childVars, events>>

\* next_line() returns Ok(Some(line)); lines.push(line.clone())
\* as StdoutNextLine, but a progress event is emitted for every line
\* parse_progress returns a value for, whatever its total
StdoutNextLine_AnyTotal ==
    /\ task_pc["stdout"] = "read"
    /\ pipe["stdout"] # <<>>
    /\ LET line == Head(pipe["stdout"])
           progress == parse_progress(line)
       IN  /\ pipe' = [pipe EXCEPT !["stdout"] = Tail(@)]
           /\ task_lines' = [task_lines EXCEPT !["stdout"] = Append(@, line)]
           /\ task_line' = [task_line EXCEPT !["stdout"] = line]
           /\ task_pc' = [task_pc EXCEPT !["stdout"] =
                             IF progress.tag = "Some"
                             THEN "emit_progress"
                             ELSE "emit_log"]
    /\ UNCHANGED <<rd_closed, produced, read_err>>
    /\ UNCHANGED <<supVars, childVars, events>>

StdoutNextLine ==
    /\ task_pc["stdout"] = "read"
    /\ pipe["stdout"] # <<>>
    /\ LET line == Head(pipe["stdout"])
           progress == parse_progress(line)
       IN  /\ pipe' = [pipe EXCEPT !["stdout"] = Tail(@)]
           /\ task_lines' = [task_lines EXCEPT !["stdout"] = Append(@, line)]
           /\ task_line' = [task_line EXCEPT !["stdout"] = line]
           /\ task_pc' = [task_pc EXCEPT !["stdout"] =
                             IF progress.tag = "Some" /\ progress.val[2] > 0
                             THEN "emit_progress"
                             ELSE "emit_log"]
    /\ UNCHANGED <<rd_closed, produced, read_err>>
    /\ UNCHANGED <<supVars, childVars, events>>

\* as StdoutEmitProgress, but the progress event replaces the line's log event
StdoutEmitProgress_InsteadOfLog ==
    /\ task_pc["stdout"] = "emit_progress"
    /\ LET progress == parse_progress(task_line["stdout"]).val
       IN  events' = Append(events, ProgressEvent("stdout", progress[1],
                                                  progress[2], progress[3]))
    /\ task_pc' = [task_pc EXCEPT !["stdout"] = "read"]
    /\ task_line' = [task_line EXCEPT !["stdout"] = <<>>]
    /\ UNCHANGED <<task_lines, read_err>>
    /\ UNCHANGED <<supVars, childVars, pipeVars>>

StdoutEmitProgress ==
    /\ task_pc["stdout"] = "emit_progress"
    /\ LET progress == parse_progress(task_line["stdout"]).val
       IN  events' = Append(events, ProgressEvent("stdout", progress[1],
                                                  progress[2], progress[3]))
    /\ task_pc' = [task_pc EXCEPT !["stdout"] = "emit_log"]
    /\ UNCHANGED <<task_lines, task_line, read_err>>
    /\ UNCHANGED <<supVars, childVars, pipeVars>>

StdoutEmitLog ==
    /\ task_pc["stdout"] = "emit_log"
    /\ LET line == task_line["stdout"]
       IN  events' = Append(events,
                            LogEvent("stdout", line, get_log_level(line)))
    /\ task_pc' = [task_pc EXCEPT !["stdout"] = "read"]
    /\ task_line' = [task_line EXCEPT !["stdout"] = <<>>]
    /\ UNCHANGED <<task_lines, read_err>>
    /\ UNCHANGED <<supVars, childVars, pipeVars>>

StderrNextLine ==
    /\ task_pc["stderr"] = "read"
    /\ pipe["stderr"] # <<>>
    /\ LET line == Head(pipe["stderr"])
       IN  /\ pipe' = [pipe EXCEPT !["stderr"] = Tail(@)]
           /\ task_lines' = [task_lines EXCEPT !["stderr"] = Append(@, line)]
           /\ task_line' = [task_line EXCEPT !["stderr"] = line]
           /\ task_pc' = [task_pc EXCEPT !["stderr"] = "emit_log"]
    /\ UNCHANGED <<rd_closed, produced, read_err>>
    /\ UNCHANGED <<supVars, childVars, events>>

\* as StderrEmitLog, but the level is the one get_log_level gives to the
\* line as it was read
StderrEmitLog_LevelOfLine ==
    /\ task_pc["stderr"] = "emit_log"
    /\ events' = Append(events,
                        LogEvent("stderr",
                                 StderrPrefix \o task_line["stderr"],
                                 get_log_level(task_line["stderr"])))
    /\ task_pc' = [task_pc EXCEPT !["stderr"] = "read"]
    /\ task_line' = [task_line EXCEPT !["stderr"] = <<>>]
    /\ UNCHANGED <<task_lines, read_err>>
    /\ UNCHANGED <<supVars, childVars, pipeVars>>

StderrEmitLog ==
    /\ task_pc["stderr"] = "emit_log"
    /\ events' = Append(events,
                        LogEvent("stderr",
                                 StderrPrefix \o task_line["stderr"], "error"))
    /\ task_pc' = [task_pc EXCEPT !["stderr"] = "read"]
    /\ task_line' = [task_line EXCEPT !["stderr"] = <<>>]
    /\ UNCHANGED <<task_lines, read_err>>
    /\ UNCHANGED <<supVars, childVars, pipeVars>>

\* as TaskEof, but the loop does not end on Ok(None): it polls again
TaskEof_KeepsReading(s) ==
    /\ task_pc[s] = "read"
    /\ pipe[s] = <<>>
    /\ child = "exited"
    /\ UNCHANGED vars

\* next_line() returns Ok(None): the pipe is empty and its write end closed
TaskEof(s) ==
    /\ task_pc[s] = "read"
    /\ pipe[s] = <<>>
    /\ child = "exited"
    /\ TaskEnds(s, "finished")
    /\ UNCHANGED <<task_lines, task_line, read_err>>
    /\ UNCHANGED <<supVars, childVars, events>>

\* as TaskReadErr, but the error is unwrapped: the task panics
TaskReadErr_Panics(s) ==
    /\ task_pc[s] = "read"
    /\ TaskEnds(s, "aborted")
    /\ read_err' = read_err \cup {s}
    /\ UNCHANGED <<task_lines, task_line>>
    /\ UNCHANGED <<supVars, childVars, events>>

\* next_line() returns Err (an I/O error, or bytes that are not UTF-8): the
\* `while let` loop ends and the task returns the lines read so far
TaskReadErr(s) ==
    /\ task_pc[s] = "read"
    /\ TaskEnds(s, "finished")
    /\ read_err' = read_err \cup {s}
    /\ UNCHANGED <<task_lines, task_line>>
    /\ UNCHANGED <<supVars, childVars, events>>

\* the task ends without a value (it panicked or was cancelled): its
\* JoinHandle will resolve to Err(JoinError)
TaskAbort(s) ==
    /\ task_pc[s] = "read"
    /\ TaskEnds(s, "aborted")
    /\ UNCHANGED <<task_lines, task_line, read_err>>
    /\ UNCHANGED <<supVars, childVars, events>>

----------------------------------------------------------------------------
(* run_python_task from child.wait() on *)

WaitOk ==
    /\ pc = "wait"
    /\ child = "exited"
    /\ exit_status' = child_status
    /\ pc' = "join_stdout"
    /\ UNCHANGED <<config, cli_args, stdout_lines, stderr_lines, result,
                   events>>
    /\ UNCHANGED <<childVars, pipeVars, taskVars>>

\* child.wait() fails: `?` returns, dropping the JoinHandles, which detaches
\* the two tasks
\* as WaitErr, but a build_complete is emitted before the error is returned
WaitErr_EmitsComplete ==
    /\ pc = "wait"
    /\ ReturnErr("Failed to wait for process")
    /\ events' = Append(events,
                        CompletionEvent(FALSE, -1,
                                        BuildFailedPrefix \o IntToStr(-1)))
    /\ UNCHANGED <<config, cli_args, exit_status, stdout_lines, stderr_lines>>
    /\ UNCHANGED <<childVars, pipeVars, taskVars>>

WaitErr ==
    /\ pc = "wait"
    /\ ReturnErr("Failed to wait for process")
    /\ UNCHANGED <<config, cli_args, exit_status, stdout_lines, stderr_lines,
                   events>>
    /\ UNCHANGED <<childVars, pipeVars, taskVars>>

JoinStdoutOk ==
    /\ pc = "join_stdout"
    /\ task_pc["stdout"] = "finished"
    /\ stdout_lines' = task_lines["stdout"]
    /\ pc' = "join_stderr"
    /\ UNCHANGED <<config, cli_args, exit_status, stderr_lines, result,
                   events>>
    /\ UNCHANGED <<childVars, pipeVars, taskVars>>

\* as JoinStdoutErr, but the JoinError is replaced by no lines
\* (unwrap_or_default) and the run goes on
JoinStdoutErr_Swallowed ==
    /\ pc = "join_stdout"
    /\ task_pc["stdout"] = "aborted"
    /\ stdout_lines' = <<>>
    /\ pc' = "join_stderr"
    /\ UNCHANGED <<config, cli_args, exit_status, stderr_lines, result,
                   events>>
    /\ UNCHANGED <<childVars, pipeVars, taskVars>>

JoinStdoutErr ==
    /\ pc = "join_stdout"
    /\ task_pc["stdout"] = "aborted"
    /\ ReturnErr("Failed to read stdout")
    /\ UNCHANGED <<config, cli_args, exit_status, stdout_lines, stderr_lines,
                   events>>
    /\ UNCHANGED <<childVars, pipeVars, taskVars>>

\* as JoinStderrOk, but the handle is not awaited: the lines are taken while
\* the task may still be running
JoinStderrOk_NotAwaited ==
    /\ pc = "join_stderr"
    /\ stderr_lines' = task_lines["stderr"]
    /\ pc' = "emit_complete"
    /\ UNCHANGED <<config, cli_args, exit_status, stdout_lines, result,
                   events>>
    /\ UNCHANGED <<childVars, pipeVars, taskVars>>

JoinStderrOk ==
    /\ pc = "join_stderr"
    /\ task_pc["stderr"] = "finished"
    /\ stderr_lines' = task_lines["stderr"]
    /\ pc' = "emit_complete"
    /\ UNCHANGED <<config, cli_args, exit_status, stdout_lines, result,
                   events>>
    /\ UNCHANGED <<childVars, pipeVars, taskVars>>

JoinStderrErr ==
    /\ pc = "join_stderr"
    /\ task_pc["stderr"] = "aborted"
    /\ ReturnErr("Failed to read stderr")
    /\ UNCHANGED <<config, cli_args, exit_status, stdout_lines, stderr_lines,
                   events>>
    /\ UNCHANGED <<childVars, pipeVars, taskVars>>

EmitComplete ==
    /\ pc = "emit_complete"
    /\ LET exit_code == ExitCodeOf(exit_status.val)
           success == SuccessOf(exit_status.val)
       IN  events' = Append(events,
               CompletionEvent(success, exit_code,
                   IF success THEN BuildCompletedMsg
                   ELSE BuildFailedPrefix \o IntToStr(exit_code)))
    /\ pc' = "return_ok"
    /\ UNCHANGED <<config, cli_args, exit_status, stdout_lines, stderr_lines,
                   result>>
    /\ UNCHANGED <<childVars, pipeVars, taskVars>>

ReturnOk ==
    /\ pc = "return_ok"
    /\ result' = Some(Ok([stdout |-> join(stdout_lines, NewLine),
                          stderr |-> join(stderr_lines, NewLine),
                          status |-> ExitCodeOf(exit_status.val)]))
    /\ pc' = "returned"
    /\ UNCHANGED <<config, cli_args, exit_status, stdout_lines, stderr_lines,
                   events>>
    /\ UNCHANGED <<childVars, pipeVars, taskVars>>

----------------------------------------------------------------------------
(* Specification *)

Supervisor ==
    \/ BuildCliArgs
    \/ BuildCommand
    \/ Spawn
    \/ TakeStdout
    \/ TakeStderr
    \/ SpawnStdoutTask
    \/ SpawnStderrTask
    \/ WaitOk
    \/ WaitErr
    \/ JoinStdoutOk
    \/ JoinStdoutErr
    \/ JoinStderrOk
    \/ JoinStderrErr
    \/ EmitComplete
    \/ ReturnOk

Worker ==
    \/ \E s \in Streams : \E line \in LinesOf(s) : ChildWrite(s, line)
    \/ ChildUnblock
    \/ \E code \in ExitCodes : ChildExit(code)
    \/ ChildKilled

StdoutTask ==
    \/ StdoutNextLine
    \/ StdoutEmitProgress
    \/ StdoutEmitLog
    \/ TaskEof("stdout")
    \/ TaskReadErr("stdout")
    \/ TaskAbort("stdout")

StderrTask ==
    \/ StderrNextLine
    \/ StderrEmitLog
    \/ TaskEof("stderr")
    \/ TaskReadErr("stderr")
    \/ TaskAbort("stderr")

Next == Supervisor \/ Worker \/ StdoutTask \/ StderrTask

Spec == Init /\ [][Next]_vars

\* The steps run_python_task takes by itself; a failing child.wait() is an
\* event of the platform.
SupervisorRuns ==
    \/ BuildCliArgs
    \/ BuildCommand
    \/ Spawn
    \/ TakeStdout
    \/ TakeStderr
    \/ SpawnStdoutTask
    \/ SpawnStderrTask
    \/ WaitOk
    \/ JoinStdoutOk
    \/ JoinStdoutErr
    \/ JoinStderrOk
    \/ JoinStderrErr
    \/ EmitComplete
    \/ ReturnOk

\* The steps a drainer takes when its read returns a line or end-of-stream
StdoutDrains ==
    \/ StdoutNextLine
    \/ StdoutEmitProgress
    \/ StdoutEmitLog
    \/ TaskEof("stdout")

StderrDrains ==
    \/ StderrNextLine
    \/ StderrEmitLog
    \/ TaskEof("stderr")

\* The tokio runtime runs every task that is ready; the worker completes a
\* write that can complete and exits once it has nothing left to write.
Fairness ==
    /\ WF_vars(SupervisorRuns)
    /\ WF_vars(StdoutDrains)
    /\ WF_vars(StderrDrains)
    /\ WF_vars(ChildUnblock)
    /\ WF_vars(\E code \in ExitCodes : ChildExit(code))

\* Whether a run returns does not depend on the text of the lines nor on
\* the exit code: the runs checked for it print one text per stream ("1 of 2"
\* takes the longest path through the stdout drainer), at most one line on
\* stderr, and exit with 0 or by a signal.
FairWorker ==
    \/ ChildWrite("stdout", <<"1", " ", "o", "f", " ", "2">>)
    \/ written["stderr"] = 0 /\ ChildWrite("stderr", <<"E">>)
    \/ ChildUnblock
    \/ ChildExit(0)
    \/ ChildKilled

FairNext == Supervisor \/ FairWorker \/ StdoutTask \/ StderrTask

FairSpec == Init /\ [][FairNext]_vars /\ Fairness

\* The runs the line functions are checked on: the worker prints one line, of
\* any of the texts, on one of its streams, and exits.
ParseWorker ==
    \/ \E line \in ParseLines :
          /\ \A s \in Streams : written[s] = 0
          /\ ChildWrite("stdout", line)
    \/ \E line \in ParseErrLines :
          /\ \A s \in Streams : written[s] = 0
          /\ ChildWrite("stderr", line)
    \/ ChildExit(0)

\* What a line is turned into does not depend on the failures of the
\* platform: these runs have none after the worker is spawned.
ParseSupervisor ==
    \/ BuildCliArgs
    \/ BuildCommand
    \/ Spawn
    \/ TakeStdout
    \/ TakeStderr
    \/ SpawnStdoutTask
    \/ SpawnStderrTask
    \/ WaitOk
    \/ JoinStdoutOk
    \/ JoinStderrOk
    \/ EmitComplete
    \/ ReturnOk

ParseNext ==
    ParseSupervisor \/ ParseWorker \/ StdoutDrains \/ StderrDrains

ParseSpec == Init /\ [][ParseNext]_vars

----------------------------------------------------------------------------
(* Properties *)

Ended == {"finished", "aborted"}

IsCompletion(e) == e.kind = "build_complete"

CompletionIndexes == {i \in 1..Len(events) : IsCompletion(events[i])}

\* the events a drainer has emitted, in emission order
EventsOf(s) == SelectSeq(events, LAMBDA e : e.src = s)

LogsOf(s) == SelectSeq(events, LAMBDA e : e.src = s /\ e.kind = "build_log")

LogEvents == SelectSeq(events, LAMBDA e : e.kind = "build_log")

IsPrefix(a, b) == Len(a) <= Len(b) /\ a = SubSeq(b, 1, Len(a))

ReturnedOk == result # None /\ result.val.tag = "Ok"

ReturnedErr == result # None /\ result.val.tag = "Err"

\* C1: a build_complete event is in the event sequence only when child.wait()
\* has returned a status and both drainer tasks have finished, and it is the
\* last event: every log and progress event precedes it.
C1_CompletionAfterDrain ==
    \A i \in CompletionIndexes :
        /\ exit_status # None
        /\ child = "exited"
        /\ \A s \in Streams : task_pc[s] = "finished"
        /\ i = Len(events)

C1_Witness ==
    /\ CompletionIndexes # {}
    /\ Len(LogsOf("stdout")) >= 1
    /\ Len(LogsOf("stderr")) >= 1
    /\ \E i \in 1..Len(events) : events[i].kind = "build_progress"

\* C2: a run emits at most one build_complete; once run_python_task has
\* returned, it has returned Ok or Err, and it has emitted exactly one
\* build_complete if it returned Ok and none if it returned Err.
C2_OneCompletionIffOk ==
    /\ Cardinality(CompletionIndexes) <= 1
    /\ (pc = "returned") <=> (result # None)
    /\ pc = "returned" =>
          /\ result.val.tag \in {"Ok", "Err"}
          /\ result.val.tag = "Ok" => Cardinality(CompletionIndexes) = 1
          /\ result.val.tag = "Err" => Cardinality(CompletionIndexes) = 0

C2_Witness ==
    /\ pc = "returned"
    /\ ReturnedOk
    /\ Cardinality(CompletionIndexes) = 1
    /\ Len(events) > 1

\* C3: every line a drainer has read has exactly one log event, emitted or
\* (for the line the drainer is processing) about to be emitted; when the run
\* completes, the number of log events is the number of lines read from
\* stdout plus the number read from stderr.
C3_OneLogPerLine ==
    /\ \A s \in Streams :
          Len(LogsOf(s)) + (IF task_pc[s] \in {"emit_progress", "emit_log"}
                            THEN 1 ELSE 0)
             = Len(task_lines[s])
    /\ ReturnedOk =>
          Len(LogEvents) = Len(task_lines["stdout"]) + Len(task_lines["stderr"])

C3_Witness ==
    /\ ReturnedOk
    /\ Len(task_lines["stdout"]) >= 2
    /\ Len(task_lines["stderr"]) >= 1
    /\ Len(LogEvents) >= 3

\* the lines a stream's log events carry: the message, without the tag the
\* stderr drainer prefixes
LoggedLines(s) ==
    [i \in 1..Len(LogsOf(s)) |->
        IF s = "stderr"
        THEN SubSeq(LogsOf(s)[i].message, Len(StderrPrefix) + 1,
                    Len(LogsOf(s)[i].message))
        ELSE LogsOf(s)[i].message]

C5_NoPipeDeadlock ==
    /\ pc \in {"wait", "join_stdout", "join_stderr", "emit_complete",
               "return_ok"}
          => \A s \in Streams : task_pc[s] # "unstarted"
    /\ (/\ pc = "wait"
        /\ child_blocked # None
        /\ child_blocked.val.stream = "stdout"
        /\ Len(pipe["stdout"]) = PipeCap
        /\ task_pc["stdout"] \notin Ended) => ENABLED StdoutDrains
    /\ (/\ pc = "wait"
        /\ child_blocked # None
        /\ child_blocked.val.stream = "stderr"
        /\ Len(pipe["stderr"]) = PipeCap
        /\ task_pc["stderr"] \notin Ended) => ENABLED StderrDrains

C5_Witness ==
    /\ pc = "wait"
    /\ child = "running"
    /\ child_blocked # None
    /\ child_blocked.val.stream = "stdout"
    /\ Len(pipe["stdout"]) = PipeCap
    /\ Len(pipe["stderr"]) = PipeCap
    /\ task_pc["stdout"] = "read"
    /\ task_pc["stderr"] = "read"

\* C6: every run eventually returns (checked under FairSpec: the tasks that
\* are ready run, the worker finishes its writes and exits).
C6_EventuallyReturns == <>(pc = "returned")

C6_Witness ==
    /\ pc = "returned"
    /\ ReturnedOk
    /\ read_err # {}
    /\ \A s \in Streams : written[s] = MaxLinesOf(s)
    /\ CompletionIndexes # {}

\* C7: when run_python_task has returned without a worker process (the
\* executable was not found, or the spawn failed), it has returned Err, no
\* event has been emitted and no drainer task has been started; the error of
\* a failed spawn is returned in no other state.
C7_SpawnFailure ==
    /\ (pc = "returned" /\ cli_args # None /\ child = "none") =>
          /\ result.val.tag = "Err"
          /\ result.val.err \in {"Failed to spawn process",
                                 "Backend binary not found",
                                 "Failed to resolve backend binary path"}
          /\ events = <<>>
          /\ \A s \in Streams :
                task_pc[s] = "unstarted" /\ task_lines[s] = <<>>
    /\ (result # None /\ result.val = Err("Failed to spawn process")) =>
          /\ child = "none"
          /\ events = <<>>
          /\ \A s \in Streams : task_pc[s] = "unstarted"

C7_Witness ==
    /\ result = Some(Err("Failed to spawn process"))
    /\ pc = "returned"

\* C8: a drainer that met a read error has ended normally, with the lines it
\* had read; if the run returned Ok, the returned text of each stream is the
\* lines read from it, a stream without read error has been read to its end,
\* and the build_complete has been emitted; the run returns Err only after a
\* failed wait or a failed join.
C8_ReadErrorTolerated ==
    /\ \A s \in read_err :
          /\ task_pc[s] = "finished"
          /\ IsPrefix(task_lines[s], produced[s])
    /\ (read_err # {} /\ ReturnedOk) =>
          /\ result.val.val.stdout = join(task_lines["stdout"], NewLine)
          /\ result.val.val.stderr = join(task_lines["stderr"], NewLine)
          /\ \A s \in Streams \ read_err : task_lines[s] = produced[s]
          /\ Cardinality(CompletionIndexes) = 1
    /\ (read_err # {} /\ ReturnedErr) =>
          \/ result.val.err = "Failed to wait for process"
          \/ /\ result.val.err = "Failed to read stdout"
             /\ task_pc["stdout"] = "aborted"
          \/ /\ result.val.err = "Failed to read stderr"
             /\ task_pc["stderr"] = "aborted"

C8_Witness ==
    /\ read_err = {"stdout"}
    /\ ReturnedOk
    /\ Len(task_lines["stdout"]) = 1
    /\ Len(produced["stdout"]) = 2
    /\ Len(task_lines["stderr"]) >= 1
    /\ CompletionIndexes # {}

\* the code the worker exited with, -1 if its status carries none
WorkerExitCode ==
    IF child_status.val.code = None THEN -1 ELSE child_status.val.code.val

\* C9: the build_complete carries the worker's exit code (-1 if the status
\* has none) and success exactly if that code is 0; the returned status is
\* the same code, whatever its value.
C9_SuccessIffZero ==
    /\ \A i \in CompletionIndexes :
          /\ child = "exited"
          /\ events[i].exit_code = WorkerExitCode
          /\ events[i].success <=> (events[i].exit_code = 0)
          /\ child_status.val.code = None =>
                events[i].exit_code = -1 /\ ~events[i].success
    /\ ReturnedOk =>
          /\ result.val.val.status = WorkerExitCode
          /\ \A i \in CompletionIndexes :
                events[i].exit_code = result.val.val.status

C9_Witness ==
    /\ ReturnedOk
    /\ result.val.val.status = 3
    /\ \E i \in CompletionIndexes :
          events[i].exit_code = 3 /\ ~events[i].success

\* the line a log event was made from
LineOfLog(e) ==
    IF e.src = "stderr"
    THEN SubSeq(e.message, Len(StderrPrefix) + 1, Len(e.message))
    ELSE e.message

\* in the events drainer s has emitted, every log event of a line whose
\* progress has total > 0 directly follows the progress event of that line
ProgressBeforeLog(s) ==
    LET E == EventsOf(s)
    IN  \A i \in 1..Len(E) :
           E[i].kind = "build_log" =>
              LET progress == parse_progress(LineOfLog(E[i]))
              IN  (progress.tag = "Some" /\ progress.val[2] > 0) =>
                     /\ i > 1
                     /\ E[i - 1] = ProgressEvent(s, progress.val[1],
                                                 progress.val[2],
                                                 progress.val[3])

MarkerClosed(line) ==
    \E i \in 1..Len(line) : \E j \in 1..Len(line) :
        /\ OccursAt(line, PatchingBundleMarker, i)
        /\ OccursAt(line, TripleEq, j)
        /\ j >= i + Len(PatchingBundleMarker)

\* C11: every progress event has total > 0; a stdout line for which
\* parse_progress returns total = 0, as it does for every line with a closed
\* bundle-start marker, is never followed by a progress event of its own: its
\* log event does not come directly after a progress event.
C11_ProgressTotalPositive ==
    /\ \A i \in 1..Len(events) :
          events[i].kind = "build_progress" => events[i].total > 0
    /\ \A k \in 1..Len(produced["stdout"]) :
          MarkerClosed(produced["stdout"][k]) =>
             /\ parse_progress(produced["stdout"][k]).tag = "Some"
             /\ parse_progress(produced["stdout"][k]).val[2] = 0
    /\ task_pc["stdout"] = "emit_progress" =>
          parse_progress(task_line["stdout"]).val[2] > 0
    /\ LET E == EventsOf("stdout")
       IN  \A i \in 1..Len(E) :
              (/\ E[i].kind = "build_log"
               /\ parse_progress(E[i].message).tag = "Some"
               /\ parse_progress(E[i].message).val[2] = 0) =>
                  (i = 1 \/ E[i - 1].kind = "build_log")

C11_Witness ==
    /\ task_pc["stdout"] = "finished"
    /\ Len(EventsOf("stdout")) = 1
    /\ EventsOf("stdout")[1].kind = "build_log"
    /\ MarkerClosed(EventsOf("stdout")[1].message)
    /\ parse_progress(EventsOf("stdout")[1].message).val[2] = 0

\* C12: the log event of a stderr line carries the line prefixed with
\* "[STDERR] " and the level error, which is the level get_log_level gives to
\* the prefixed text; the stderr text of the result is the lines as they were
\* read, without the prefix; the log event of a stdout line carries the line
\* as it was read and the level get_log_level gives to it.
C12_StderrTagged ==
    /\ \A i \in 1..Len(LogsOf("stderr")) :
          LET e == LogsOf("stderr")[i]
          IN  /\ e.message = StderrPrefix \o produced["stderr"][i]
              /\ e.level = "error"
              /\ e.level = get_log_level(e.message)
              /\ task_lines["stderr"][i] = produced["stderr"][i]
    /\ \A i \in 1..Len(LogsOf("stdout")) :
          LET e == LogsOf("stdout")[i]
          IN  /\ e.message = produced["stdout"][i]
              /\ e.level = get_log_level(produced["stdout"][i])
    /\ ReturnedOk =>
          /\ result.val.val.stderr = join(task_lines["stderr"], NewLine)
          /\ IsPrefix(task_lines["stderr"], produced["stderr"])

C12_Witness ==
    /\ ReturnedOk
    /\ Len(LogsOf("stderr")) = 1
    /\ LogsOf("stderr")[1].message = StderrPrefix \o <<"w", "a", "r", "n">>
    /\ LogsOf("stderr")[1].level = "error"
    /\ result.val.val.stderr = <<"w", "a", "r", "n">>

\* a cancellation by the supervisor: a step of run_python_task that
\* terminates the running worker
Cancel == Supervisor /\ child = "running" /\ child' = "exited"

\* C13: the supervisor can cancel a running worker: while run_python_task
\* waits for a worker that is running, it has a step that kills the worker.
C13_CancelSupported == (pc = "wait" /\ child = "running") => ENABLED Cancel

\* C14: when child.wait() fails or the join of a drainer task fails,
\* run_python_task returns Err and no build_complete is emitted: a run never
\* goes past the join of a task that ended without a value, and a run that
\* has returned with such a task has returned Err.
C14_WaitOrJoinFailure ==
    /\ (/\ ReturnedErr
        /\ result.val.err \in {"Failed to wait for process",
                               "Failed to read stdout",
                               "Failed to read stderr"}) =>
          CompletionIndexes = {}
    /\ result = Some(Err("Failed to wait for process")) => exit_status = None
    /\ (pc \in {"join_stderr", "emit_complete", "return_ok"} \/ ReturnedOk) =>
          task_pc["stdout"] = "finished"
    /\ (pc \in {"emit_complete", "return_ok"} \/ ReturnedOk) =>
          task_pc["stderr"] = "finished"
    /\ (pc = "returned" /\ \E s \in Streams : task_pc[s] = "aborted") =>
          ReturnedErr /\ CompletionIndexes = {}

C14_Witness ==
    /\ result = Some(Err("Failed to read stderr"))
    /\ task_pc["stdout"] = "finished"
    /\ task_pc["stderr"] = "aborted"
    /\ exit_status # None
    /\ Len(events) >= 1
    /\ CompletionIndexes = {}

\* word, given in upper case, occurs in line in some letter case
ContainsAnyCase(line, word) ==
    \E i \in 1..Len(line) :
        /\ i + Len(word) - 1 <= Len(line)
        /\ \A k \in 1..Len(word) : UpperChar(line[i + k - 1]) = word[k]

HasErrorMarker(line) ==
    \/ ContainsAnyCase(line, ErrorWord)
    \/ ContainsAnyCase(line, CrossGlyph)
    \/ ContainsAnyCase(line, StderrTag)

HasWarnMarker(line) ==
    ContainsAnyCase(line, WarnWord) \/ ContainsAnyCase(line, WarningWord)

\* C15: get_log_level gives every line one of the three levels, by priority:
\* error if the line has "ERROR", the failure glyph or "[STDERR]" in any
\* letter case, whether or not it also has "WARN"; otherwise warning if it
\* has "WARN" / "WARNING" in any letter case; otherwise info. The log event
\* of a stdout line carries that level.
C15_ClassifierPriority ==
    /\ \A s \in Streams : \A k \in 1..Len(produced[s]) :
          LET line == produced[s][k]
              level == get_log_level(line)
          IN  /\ level \in {"error", "warning", "info"}
              /\ HasErrorMarker(line) => level = "error"
              /\ (~HasErrorMarker(line) /\ HasWarnMarker(line)) =>
                    level = "warning"
              /\ (~HasErrorMarker(line) /\ ~HasWarnMarker(line)) =>
                    level = "info"
    /\ \A i \in 1..Len(LogsOf("stdout")) :
          LET e == LogsOf("stdout")[i]
          IN  e.level = IF HasErrorMarker(e.message) THEN "error"
                        ELSE IF HasWarnMarker(e.message) THEN "warning"
                        ELSE "info"

C15_Witness ==
    /\ Len(LogsOf("stdout")) = 1
    /\ LogsOf("stdout")[1].message =
          <<"a", "n", " ", "e", "r", "r", "o", "r", " ", "W", "A", "R", "N">>
    /\ LogsOf("stdout")[1].level = "error"

\* the positions at which a token (a maximal run of non-whitespace) starts
TokenStarts(line) ==
    {a \in 1..Len(line) :
        /\ line[a] \notin WhiteSpace
        /\ a = 1 \/ line[a - 1] \in WhiteSpace}

\* the token that starts at position a
TokenAt(line, a) ==
    LET b == CHOOSE b \in a..Len(line) :
                 /\ \A j \in a..b : line[j] \notin WhiteSpace
                 /\ b = Len(line) \/ line[b + 1] \in WhiteSpace
    IN  SubSeq(line, a, b)

\* the n-th token of the line
NthToken(line, n) ==
    TokenAt(line, CHOOSE a \in TokenStarts(line) :
                     Cardinality({x \in TokenStarts(line) : x < a}) = n - 1)

\* the n with tokens n, n+1, n+2 of the form (a, "of", b), a and b parsing
\* as integers
OfTriples(line) ==
    {n \in 1..(Cardinality(TokenStarts(line)) - 2) :
        /\ NthToken(line, n + 1) = OfWord
        /\ parse_u32(NthToken(line, n)).tag = "Ok"
        /\ parse_u32(NthToken(line, n + 2)).tag = "Ok"}

\* the text before the first "===", trimmed; the line trimmed if it has none
StatusText(line) ==
    LET at == {j \in 1..Len(line) : OccursAt(line, TripleEq, j)}
    IN  IF at = {} THEN trim(line)
        ELSE trim(SubSeq(line, 1, (CHOOSE j \in at : \A x \in at : j <= x) - 1))

\* what the scan of the line's tokens for "a of b" gives
FirstOfTriple(line) ==
    IF OfTriples(line) = {} THEN None
    ELSE LET n == CHOOSE n \in OfTriples(line) :
                      \A x \in OfTriples(line) : n <= x
         IN  Some(<<parse_u32(NthToken(line, n)).val,
                    parse_u32(NthToken(line, n + 2)).val,
                    StatusText(line)>>)

\* C16: for every line without the bundle-start marker, parse_progress
\* returns (a, b, status) for the first triple of tokens (a, "of", b) with a
\* and b parsing as integers, status being the text before the first "===",
\* trimmed, and returns nothing if there is no such triple, whatever
\* whitespace separates the tokens.
C16_AnyWhitespace ==
    \A k \in 1..Len(produced["stdout"]) :
        LET line == produced["stdout"][k]
        IN  ~contains(line, PatchingBundleMarker) =>
               parse_progress(line) = FirstOfTriple(line)

\* C17: a run request whose skin path is empty or only whitespace returns
\* Err("Skin folder is required.") as its first step: no worker is spawned,
\* no drainer task is started and no event is emitted.
C17_EmptySkinRejected ==
    (\A i \in 1..Len(config.skin_path) : config.skin_path[i] \in WhiteSpace) =>
       /\ pc \in {"build_cli_args", "returned"}
       /\ pc = "returned" => result = Some(Err("Skin folder is required."))
       /\ cli_args = None
       /\ child = "none"
       /\ \A s \in Streams : task_pc[s] = "unstarted"
       /\ events = <<>>

C17_Witness ==
    /\ config.skin_path = <<" ">>
    /\ pc = "returned"
    /\ result = Some(Err("Skin folder is required."))
    /\ child = "none"

\* a line in the format the doc comment of parse_progress gives:
\* "=== Patching bundle X of Y: path/to/bundle ==="
DocFormatLine(x, y, path) ==
    <<"=", "=", "=", " ", "P", "a", "t", "c", "h", "i", "n", "g", " ", "b",
      "u", "n", "d", "l", "e", " ">>
    \o IntToStr(x) \o SpOfSp \o IntToStr(y) \o <<":", " ">> \o path
    \o <<" ", "=", "=", "=">>

DocFormatPaths == {<<"p", "/", "b">>}

\* C18: for a line in the documented format, with decimal X and Y,
\* parse_progress returns (X, Y, status); once the stdout drainer has logged
\* such a line with Y > 0, it has emitted a progress event with current = X
\* and total = Y.
C18_DocumentedFormat ==
    \A k \in 1..Len(produced["stdout"]) :
       \A x \in 0..9 : \A y \in 0..9 : \A path \in DocFormatPaths :
          produced["stdout"][k] = DocFormatLine(x, y, path) =>
             /\ parse_progress(produced["stdout"][k]).tag = "Some"
             /\ parse_progress(produced["stdout"][k]).val[1] = x
             /\ parse_progress(produced["stdout"][k]).val[2] = y
             /\ (y > 0 /\ Len(LogsOf("stdout")) >= k) =>
                   \E i \in 1..Len(events) :
                      /\ events[i].kind = "build_progress"
                      /\ events[i].current = x
                      /\ events[i].total = y

\* C19: the two patterns of parse_progress are tried in order. A line with
\* the bundle-start marker and a closing "===" after it gives
\* (0, 0, "Processing: ...") whatever "X of Y" it also has, and its log event
\* does not follow a progress event of the line; a line without the marker,
\* or with no "===" after its first "bundle:", gives what pattern 2 gives.
C19_FirstMatchWins ==
    /\ \A k \in 1..Len(produced["stdout"]) :
          LET line == produced["stdout"][k]
              r == parse_progress(line)
              colon == {j \in 1..Len(line) : OccursAt(line, BundleColon, j)}
              closing == {j \in 1..Len(line) :
                             /\ OccursAt(line, TripleEq, j)
                             /\ \E c \in colon : j >= c + Len(BundleColon)}
          IN  /\ MarkerClosed(line) =>
                    /\ r.tag = "Some"
                    /\ r.val[1] = 0
                    /\ r.val[2] = 0
                    /\ IsPrefix(ProcessingPrefix, r.val[3])
              /\ (~contains(line, PatchingBundleMarker) \/ closing = {}) =>
                    r = XOfY(line)
    /\ LET E == EventsOf("stdout")
       IN  \A i \in 1..Len(E) :
              (E[i].kind = "build_log" /\ MarkerClosed(E[i].message)) =>
                 (i = 1 \/ E[i - 1].kind = "build_log")

C19_Witness ==
    /\ task_pc["stdout"] = "finished"
    /\ Len(EventsOf("stdout")) = 1
    /\ LET line == EventsOf("stdout")[1].message
       IN  /\ EventsOf("stdout")[1].kind = "build_log"
           /\ MarkerClosed(line)
           /\ XOfY(line).tag = "Some"
           /\ XOfY(line).val[2] = 2
           /\ parse_progress(line) =
                 Some(<<0, 0, ProcessingPrefix \o <<"a">>>>)

\* C20: once run_python_task has returned, Ok or Err, neither drainer task
\* of the run is still running.
C20_NoTaskAfterReturn ==
    pc = "returned" =>
       \A s \in Streams : task_pc[s] \in Ended \cup {"unstarted"}

====
